---- MODULE Spec2Model ----
(***************************************************************************)
(* The resumable concurrent batch pattern of harvest-agents, as the three  *)
(* scripts implement it:                                                   *)
(*   "search"    agent_email_search.py           (thread pool, retry loop) *)
(*   "scrape"    scrape_realtor_agents_by_zipcode.py (process pool, pages) *)
(*   "structure" structure_search_results.py     (thread pool, LLM call)   *)
(* One behaviour is a sequence of invocations (runs) of one script over    *)
(* the same input and the same output directory.                           *)
(***************************************************************************)
EXTENDS Integers, Sequences, FiniteSets, TLC

\* ------------------------------------------------------------------ bounds
MaxRows == 2        \* rows of the input table / lines of the zipcodes file
MaxWorkers == 2     \* largest --max_workers tried
MaxRuns == 2        \* successive invocations of the script
MaxPages == 2       \* pages of agent cards the site serves for a zipcode
MaxLen == 2         \* characters of a text cell (Name, Company, City, County)

\* ------------------------------------------------------- program constants
max_retries == 3           \* search(..., max_retries=3)
sleep_seconds == 1         \* time.sleep(1) before a retry
structure_max_workers == 10 \* ThreadPoolExecutor(max_workers=10)

Scripts == {"search", "scrape", "structure"}
Ids == 1..MaxRows

\* The id cell of an input row (the line of the zipcodes file) holds an id or
\* nothing: pandas reads an empty cell as NaN, a blank line strips to ''.
Blank == 0
Cells == Ids \cup {Blank}

\* str(NaN) = 'nan': the id a row without id gets, and the file nan.json.
nan == MaxRows + 1
FileIds == Ids \cup {nan}

VARIABLES
    script,            \* which script this behaviour runs
    max_workers,       \* args.max_workers
    csv_files,         \* the CSV files of the input directory, in listing order
    file_ix,           \* the position in csv_files of the file being handled
    input,             \* the id cells of the rows of that file, in file order
    files,             \* the output directory: id -> state of <id>.json / agents_info_<id>.csv
    run,               \* number of invocations started so far
    environ,           \* what this invocation found: the credential, the input location
    phase,             \* "init", "running", "between", "done", "fatal", "crashed",
                       \* "aborted"
    pending,           \* search_tuples / zipcodes_to_scrape / the rows submitted
    PROCESSED_AGENTS,  \* structure_search_results: the import-time snapshot
    tasks,             \* one record per submitted future
    finished,          \* futures completed, in the order as_completed yields them
    results,           \* the list parallel_search / process_csv_file returns
    existing_files,    \* the ids whose output file existed at the pending check
    prev_succeeded,    \* history: the invocation before this one ended normally
                       \* and every task of it ended in success on 200 responses
    row,               \* the text cells of one input row
    query,             \* the search query built from row
    waiter             \* "installed" once as_completed(futures) has taken its
                       \* set of the futures that are done and waits for the rest

vars == <<script, max_workers, csv_files, file_ix, input, files, run, environ, phase, pending,
          PROCESSED_AGENTS, tasks, finished, results, existing_files,
          prev_succeeded, row, query, waiter>>

\* ------------------------------------------------------------ output files
\* The state of the output file of an id:
\* "absent"  no file
\* "partial" the file exists, opened with mode 'w' and not completely written
\* "valid"   a complete document holding a good payload
\* "error"   a complete document holding the backend's error payload

\* os.path.exists(filepath) / name in os.listdir(output_dir)
\* Faulty variant: no file is ever seen.
exists_never(f, i) == FALSE

exists(f, i) == f[i] # "absent"

\* set(os.listdir(output_dir)), as the ids the file names stand for
listdir(f) == {i \in DOMAIN f : exists(f, i)}

\* ------------------------------------------------------- work discovery
\* Faulty variant: the existence check is left out.
generate_search_tuples_nocheck(df, f) == df

\* generate_search_tuples: the rows whose <id>.json does not exist
generate_search_tuples(df, f) == SelectSeq(df, LAMBDA i : ~exists(f, i))

\* scrape main: zipcodes whose agents_info_<zipcode>.csv is not listed
zipcodes_to_scrape(zipcodes, listed) ==
    SelectSeq(zipcodes, LAMBDA z : z \notin listed)

\* df_agents['id'].astype(str), and f"{agent_id}.json" in process_agent
astype_str(c) == IF c = Blank THEN nan ELSE c

\* [line.strip() for line in f if line.strip()]
read_zipcodes(lines) == SelectSeq(lines, LAMBDA c : c # Blank)

\* process_csv_file submits process_agent for every row of the frame
rows_submitted(df) == [k \in DOMAIN df |-> astype_str(df[k])]

\* The work items main submits to the pool for the table df when the output
\* directory is f.
work_discovery(df, f) ==
    CASE script = "search" ->
           generate_search_tuples([k \in DOMAIN df |-> astype_str(df[k])], f)
      [] script = "scrape" -> zipcodes_to_scrape(read_zipcodes(df), listdir(f))
      [] OTHER -> rows_submitted(df)

\* ----------------------------------------------------------------- tasks
NoRes == [kind |-> "none", msg |-> ""]

NewTask(i) == [id |-> i, pc |-> "queued", attempt |-> 0, page |-> 1,
               all_agents |-> 0, requests |-> 0, sleeps |-> 0, slept |-> <<>>,
               conns |-> 0, peak_conns |-> 0, urls |-> <<>>, rank |-> 0,
               last |-> "none", io |-> "none", res |-> NoRes]

Tix == DOMAIN tasks

Running == {t \in Tix : tasks[t].pc \in {"attempt", "calling", "writing"}}

Queued == {t \in Tix : tasks[t].pc = "queued"}

SeqToSet(s) == {s[k] : k \in DOMAIN s}

\* ----------------------------------------------------- reading a task
ErrStatus == {"s429", "s4xx", "s5xx", "non200"}

\* The task ended without an exception and with its normal value:
\* "Completed search ..." / scrape_zipcode returned / an AgentData.
TaskEndedInSuccess(r) == r.res.kind \in {"Completed", "returned", "value"}

\* "Error processing ..." / the future holds an exception.
TaskEndedInFailure(r) == r.res.kind \in {"Error", "raised"}

\* A response of the task carried a status other than 200.
SawErrorStatus(r) == r.last \in ErrStatus

\* The invocation, over a single file, ended normally and each of its tasks
\* ended in success without any response of an error status.
FullySucceeded ==
    /\ phase = "done"
    /\ Len(csv_files) = 1
    /\ tasks # <<>>
    /\ \A t \in Tix : TaskEndedInSuccess(tasks[t]) /\ ~SawErrorStatus(tasks[t])

\* --------------------------------------------------------- search queries
\* A text is a sequence of characters; a query is a sequence of characters
\* and of the literal pieces the code puts in. A cell read by pandas holds
\* a text or, when the cell is empty, the float NaN.
Chars == {" ", "a"}
Texts == UNION {[1..n -> Chars] : n \in 0..MaxLen}
NaN == <<"NaN">>
FieldValues == Texts \cup {NaN}
Fields == {"Name", "Company", "City", "County"}
Rows == [Fields -> FieldValues]

\* No query built yet; the TypeError of str.join on a float.
unbuilt == <<"unbuilt">>
TypeError == <<"TypeError">>

\* pd.notna(v)
notna(v) == v # NaN

\* The truth value of a cell: '' is false, any other text and NaN are true.
truthy(v) == v # <<>>

RECURSIVE lstrip(_)
lstrip(s) == IF s # <<>> /\ Head(s) = " " THEN lstrip(Tail(s)) ELSE s

RECURSIVE rstrip(_)
rstrip(s) == IF s # <<>> /\ s[Len(s)] = " " THEN rstrip(SubSeq(s, 1, Len(s) - 1)) ELSE s

\* str.strip()
strip(s) == rstrip(lstrip(s))

\* sep.join(parts)
RECURSIVE join(_, _)
join(sep, parts) ==
    IF parts = <<>> THEN <<>>
    ELSE IF Len(parts) = 1 THEN parts[1]
    ELSE parts[1] \o sep \o join(sep, Tail(parts))

\* f'"{s}"'
quoted(s) == <<"\"">> \o s \o <<"\"">>

\* agent_email_search.generate_search_query(row): the county is read and
\* left out of the query.
generate_search_query(r) ==
    LET name == IF notna(r["Name"]) THEN strip(r["Name"]) ELSE <<>>
        company == IF notna(r["Company"]) THEN strip(r["Company"]) ELSE <<>>
        city == IF notna(r["City"]) THEN strip(r["City"]) ELSE <<>>
        query_parts == (IF truthy(name) THEN <<quoted(name)>> ELSE <<>>)
                       \o (IF truthy(company) THEN <<quoted(company)>> ELSE <<>>)
                       \o (IF truthy(city) THEN <<quoted(city)>> ELSE <<>>)
                       \o << <<"(email OR contact)">> >>
    IN join(<<" ">>, query_parts)

\* structure_search_results.process_agent, from name = row['Name'] to
\* search_query = " ".join(search_query_dict.values()).strip(): the name is
\* taken as it is, without the pd.notna test the other cells get.
search_query(r) ==
    LET name == r["Name"]
        firm_name == IF notna(r["Company"]) THEN r["Company"] ELSE <<>>
        city == IF notna(r["City"]) THEN r["City"] ELSE <<>>
        county == IF notna(r["County"]) THEN r["County"] ELSE <<>>
        search_query_dict ==
            SelectSeq(<<name, firm_name, city, county, <<"North Dakota">> >>, truthy)
            \o << <<"real estate">> >>
    IN IF \E k \in DOMAIN search_query_dict : search_query_dict[k] = NaN
       THEN TypeError
       ELSE strip(join(<<" ">>, search_query_dict))

\* ------------------------------------------------------------------ Init
\* The input tables of up to MaxRows rows. Ids are interchangeable, so the
\* first id of a table is 1, the next new one 2, and so on; a table may
\* repeat an id and may hold rows without id.
Inputs ==
    {q \in UNION {[1..n -> Cells] : n \in 1..MaxRows} :
        \A k \in DOMAIN q :
            q[k] # Blank
            => q[k] <= 1 + Cardinality({q[j] : j \in 1..(k - 1)} \ {Blank})}

\* The input directories: one file, or for agent_email_search two files that
\* hold no more than MaxRows rows together.
InputDirs ==
    {<<q>> : q \in Inputs}
    \cup {<<SubSeq(q, 1, n), SubSeq(q, n + 1, Len(q))>> :
            q \in {x \in Inputs : Len(x) >= 2}, n \in 1..(MaxRows - 1)}

Init ==
    /\ script \in Scripts
    /\ max_workers \in 1..MaxWorkers
    /\ csv_files \in {c \in InputDirs : \A k \in DOMAIN c : c[k] # <<>>}
    /\ Len(csv_files) > 1 => script = "search"
    /\ file_ix = 1
    /\ input = csv_files[1]
    /\ files = [i \in FileIds |-> "absent"]
    /\ run = 0
    /\ environ = [api_key |-> "set", input_exists |-> TRUE]
    /\ phase = "init"
    /\ pending = <<>>
    /\ PROCESSED_AGENTS = {}
    /\ tasks = <<>>
    /\ finished = <<>>
    /\ results = <<>>
    /\ existing_files = {}
    /\ prev_succeeded = FALSE
    /\ waiter = "none"
    /\ row = [f \in Fields |-> NaN]
    /\ query = unbuilt

\* ------------------------------------------------------------------ main
\* The credential in the environment of the process: HAS_DATA_API_KEY,
\* ZENROWS_API_KEY, OPENAI_API_KEY.
ApiKeys == {"unset", "empty", "set"}

\* Faulty variant: main goes on whatever it finds.
main_raises_never(k, d) == FALSE

\* agent_email_search and the scraper read the key first: os.environ[...]
\* raises KeyError when it is unset, an empty one raises ValueError; then
\* os.listdir(input_dir) / open(zipcodes_file) raise FileNotFoundError when
\* the input is not there. structure_search_results reads no key in its main
\* part (OpenAI() reads it inside the task) and globs the input directory,
\* which gives no file when the directory is missing.
main_raises(k, d) ==
    /\ script \in {"search", "scrape"}
    /\ k # "set" \/ ~d

\* One invocation of the script up to the submission of the futures.
Main ==
    /\ phase \in {"init", "done", "fatal", "crashed", "aborted"}
    /\ run < MaxRuns
    /\ run' = run + 1
    /\ prev_succeeded' = FullySucceeded
    /\ PROCESSED_AGENTS' = IF script = "structure" THEN listdir(files) ELSE {}
    /\ \E k \in ApiKeys, d \in BOOLEAN :
        LET p == IF main_raises(k, d) \/ ~d THEN <<>>
                 ELSE work_discovery(csv_files[1], files)
        IN /\ environ' = [api_key |-> k, input_exists |-> d]
           /\ existing_files' = IF main_raises(k, d) THEN {} ELSE listdir(files)
           /\ pending' = p
           /\ tasks' = [t \in 1..Len(p) |-> NewTask(p[t])]
           /\ phase' = IF main_raises(k, d) THEN "fatal"
                       ELSE IF p # <<>> THEN "running"
                       ELSE IF d /\ Len(csv_files) > 1 THEN "between"
                       ELSE "done"
    /\ file_ix' = 1
    /\ input' = csv_files[1]
    /\ finished' = <<>>
    /\ results' = <<>>
    /\ waiter' = "none"
    /\ UNCHANGED <<row, query, script, max_workers, csv_files, files>>

\* --------------------------------------------------------------- the pool
\* Faulty variant: one worker per submitted item, the limit ignored.
pool_size_unbounded == Len(pending)

\* ThreadPoolExecutor(max_workers=...) / ProcessPoolExecutor(max_workers=...)
pool_size == IF script = "structure" THEN structure_max_workers ELSE max_workers

\* A worker takes the oldest queued work item.
Start(t) ==
    /\ phase = "running"
    /\ t \in Queued
    /\ \A u \in Queued : t <= u
    /\ Cardinality(Running) < pool_size
    /\ tasks' = [tasks EXCEPT ![t].pc = "attempt"]
    /\ UNCHANGED <<row, query, script, max_workers, csv_files, file_ix, input, files, run, environ, phase, pending,
                   PROCESSED_AGENTS, finished, results, existing_files, prev_succeeded, waiter>>

\* Faulty variant: the future is never marked done, as_completed never
\* yields it.
Complete_unnoticed(t, r, upd) ==
    /\ tasks' = [tasks EXCEPT ![t] = [upd EXCEPT !.pc = "done", !.res = r]]
    /\ UNCHANGED finished

\* The number of futures of the batch that are done.
done_count == Cardinality({u \in Tix : tasks[u].pc \in {"done", "collected"}})

\* The future of task t completes with result r; rank records that it is
\* the rank-th future of the batch to complete.
Complete(t, r, upd) ==
    /\ tasks' = [tasks EXCEPT ![t] = [upd EXCEPT !.pc = "done", !.res = r,
                                                 !.rank = done_count + 1]]
    /\ finished' = Append(finished, t)

\* --------------------------------------------------- agent_email_search.py
\* What one request of search() can meet.
\*   "retryable" an HTTPException, ConnectionError or TimeoutError is raised
\*   "oserror"   another exception is raised (name resolution, TLS, encoding)
\*   "ok200"     a response with status 200 and a JSON body
\*   "s429", "s4xx", "s5xx"  a response with that status and a JSON body
\*   "malformed" a response whose body is not JSON
SearchOutcomes == {"retryable", "oserror", "ok200", "s429", "s4xx", "s5xx", "malformed"}

Responses == {"ok200", "s429", "s4xx", "s5xx", "malformed"}

\* except (http.client.HTTPException, ConnectionError, TimeoutError)
caught_for_retry(o) == o = "retryable"

\* Faulty variant: no except clause, the exception reaches the future.
search_wrapper_except_propagates(msg) == [kind |-> "raised", msg |-> msg]

\* search_wrapper: except Exception as e: return f"Error processing ..."
search_wrapper_except(msg) == [kind |-> "Error", msg |-> msg]

\* search_wrapper: return f"Completed search for agent_uuid: ..."
search_wrapper_return == [kind |-> "Completed", msg |-> ""]

\* The document json.dump leaves in <id>.json for the body search() returned:
\* the body is saved whatever the status of the response was.
saved_document(o) == IF o = "ok200" THEN "valid" ELSE "error"

\* Faulty variant: no finally clause, the connection stays open.
finally_close_missing(c) == c

\* finally: if conn: conn.close()
finally_close(c) == c - 1

\* The larger of two numbers.
Max(a, b) == IF a >= b THEN a ELSE b

\* One turn of the while loop of search(), and what search_wrapper does with
\* the value or the exception that comes out of it, up to open(filepath, 'w'),
\* which raises (permission denied) or creates the file empty. Every turn
\* opens a connection, and leaves through the finally clause.
search_attempt(t) ==
    /\ phase = "running"
    /\ script = "search"
    /\ t \in Tix
    /\ tasks[t].pc = "attempt"
    /\ \E o \in SearchOutcomes :
        LET opened == tasks[t].conns + 1   \* conn = HTTPSConnection(...)
            r == [tasks[t] EXCEPT !.requests = @ + 1, !.last = o,
                                  !.peak_conns = Max(@, opened),
                                  !.conns = finally_close(opened)] IN
        IF caught_for_retry(o)
        THEN /\ IF r.attempt + 1 = max_retries
                THEN Complete(t, search_wrapper_except("Failed after"),
                              [r EXCEPT !.attempt = @ + 1])
                ELSE /\ tasks' = [tasks EXCEPT ![t] =
                                    [r EXCEPT !.attempt = @ + 1, !.sleeps = @ + 1,
                                              !.slept = Append(@, sleep_seconds)]]
                     /\ UNCHANGED finished
             /\ UNCHANGED files
        ELSE IF o \in {"oserror", "malformed"}
        THEN /\ Complete(t, search_wrapper_except("other"), r)
             /\ UNCHANGED files
        ELSE \/ /\ Complete(t, search_wrapper_except("other"),
                         [r EXCEPT !.io = "open_failed"])
                /\ UNCHANGED files
             \/ /\ files' = [files EXCEPT ![r.id] = "partial"]
                /\ tasks' = [tasks EXCEPT ![t] = [r EXCEPT !.pc = "writing"]]
                /\ UNCHANGED finished
    /\ UNCHANGED <<row, query, script, max_workers, csv_files, file_ix, input, run, environ, phase, pending,
                   PROCESSED_AGENTS, results, existing_files, prev_succeeded, waiter>>

\* json.dump(search_results, f) and the close of the file, or an OSError
\* out of them (disk full), which search_wrapper turns into an error string.
search_write(t) ==
    /\ phase = "running"
    /\ script = "search"
    /\ t \in Tix
    /\ tasks[t].pc = "writing"
    /\ \/ /\ files' = [files EXCEPT ![tasks[t].id] = saved_document(tasks[t].last)]
          /\ Complete(t, search_wrapper_return, [tasks[t] EXCEPT !.io = "ok"])
       \/ /\ Complete(t, search_wrapper_except("other"),
                      [tasks[t] EXCEPT !.io = "fail"])
          /\ UNCHANGED files
    /\ UNCHANGED <<row, query, script, max_workers, csv_files, file_ix, input, run, environ, phase, pending,
                   PROCESSED_AGENTS, results, existing_files, prev_succeeded, waiter>>

\* ------------------------------------ scrape_realtor_agents_by_zipcode.py
\* What client.get of one page can meet.
\*   "agents"    status 200 and at least one agent card
\*   "empty"     status 200 and no agent card
\*   "non200"    another status
\*   "exception" client.get raises
ScrapeOutcomes == {"agents", "empty", "non200", "exception"}

\* Faulty variant: the file is written whatever was collected.
has_agents_always(n) == TRUE

\* if all_agents:
has_agents(n) == n > 0

\* Faulty variant: the page number is not advanced.
next_page_same(p) == p

\* page += 1
next_page(p) == p + 1

\* One turn of the while True loop of scrape_zipcode, and after the loop the
\* test of all_agents up to the opening of the csv file by to_csv, which
\* raises or creates the file empty.
scrape_page(t) ==
    /\ phase = "running"
    /\ script = "scrape"
    /\ t \in Tix
    /\ tasks[t].pc = "attempt"
    /\ \E o \in ScrapeOutcomes :
        LET r == [tasks[t] EXCEPT !.requests = @ + 1, !.last = o,
                                  !.urls = Append(@, tasks[t].page)] IN
        /\ o = "agents" => r.page <= MaxPages
        /\ IF o = "exception"
           THEN /\ Complete(t, [kind |-> "raised", msg |-> "other"], r)
                /\ UNCHANGED files
           ELSE IF o = "agents"
           THEN /\ tasks' = [tasks EXCEPT ![t] =
                               [r EXCEPT !.all_agents = @ + 1, !.page = next_page(@)]]
                /\ UNCHANGED <<finished, files>>
           ELSE IF ~has_agents(r.all_agents)
           THEN /\ Complete(t, [kind |-> "returned", msg |-> "No agents found"], r)
                /\ UNCHANGED files
           ELSE \/ /\ Complete(t, [kind |-> "raised", msg |-> "other"],
                            [r EXCEPT !.io = "open_failed"])
                   /\ UNCHANGED files
                \/ /\ files' = [files EXCEPT ![r.id] = "partial"]
                   /\ tasks' = [tasks EXCEPT ![t] = [r EXCEPT !.pc = "writing"]]
                   /\ UNCHANGED finished
    /\ UNCHANGED <<row, query, script, max_workers, csv_files, file_ix, input, run, environ, phase, pending,
                   PROCESSED_AGENTS, results, existing_files, prev_succeeded, waiter>>

\* df.to_csv writes the rows and closes the file, or raises an OSError.
scrape_write(t) ==
    /\ phase = "running"
    /\ script = "scrape"
    /\ t \in Tix
    /\ tasks[t].pc = "writing"
    /\ \/ /\ files' = [files EXCEPT ![tasks[t].id] = "valid"]
          /\ Complete(t, [kind |-> "returned", msg |-> "Scraped"],
                      [tasks[t] EXCEPT !.io = "ok"])
       \/ /\ Complete(t, [kind |-> "raised", msg |-> "other"],
                      [tasks[t] EXCEPT !.io = "fail"])
          /\ UNCHANGED files
    /\ UNCHANGED <<row, query, script, max_workers, csv_files, file_ix, input, run, environ, phase, pending,
                   PROCESSED_AGENTS, results, existing_files, prev_succeeded, waiter>>

\* --------------------------------------------- structure_search_results.py
\* What the OpenAI call of extract_search_results can meet.
\*   "parsed"    the model answers with a parsed AgentData
\*   "refusal"   the model refuses
\*   "exception" the client (or the reading of its answer) raises
StructureOutcomes == {"parsed", "refusal", "exception"}

\* agent_id in PROCESSED_AGENTS: the snapshot holds file-name stems, strings;
\* the NaN of a row without id is equal to none of them.
in_PROCESSED_AGENTS(i) == i # nan /\ i \in PROCESSED_AGENTS

\* process_agent up to the call of the model: the test against the snapshot,
\* the reading of the cleaned search results (found or not), and the test of
\* os.path.exists(filepath) at the head of extract_search_results.
process_agent(t) ==
    /\ phase = "running"
    /\ script = "structure"
    /\ t \in Tix
    /\ tasks[t].pc = "attempt"
    /\ LET r == tasks[t] IN
       IF in_PROCESSED_AGENTS(r.id)
       THEN Complete(t, [kind |-> "None", msg |-> "already processed"], r)
       ELSE \E found \in BOOLEAN :
            IF ~found
            THEN Complete(t, [kind |-> "None", msg |-> "not found"],
                          [r EXCEPT !.last = "notfound"])
            ELSE IF exists(files, r.id)
            THEN Complete(t, [kind |-> "None", msg |-> "already processed"], r)
            ELSE /\ tasks' = [tasks EXCEPT ![t] = [r EXCEPT !.pc = "calling",
                                                           !.last = "found"]]
                 /\ UNCHANGED finished
    /\ UNCHANGED <<row, query, script, max_workers, csv_files, file_ix, input, files, run, environ, phase, pending,
                   PROCESSED_AGENTS, results, existing_files, prev_succeeded, waiter>>

\* The answer of client.beta.chat.completions.parse and what
\* extract_search_results does with it, up to open(filepath, 'w'), which
\* raises or creates the file empty (and empties a file that is there).
extract_search_results(t) ==
    /\ phase = "running"
    /\ script = "structure"
    /\ t \in Tix
    /\ tasks[t].pc = "calling"
    /\ \E o \in StructureOutcomes :
        LET r == [tasks[t] EXCEPT !.requests = @ + 1, !.last = o] IN
        /\ o \in {"parsed", "refusal"} => environ.api_key = "set"
        /\ IF o = "exception"
           THEN /\ Complete(t, [kind |-> "raised", msg |-> "other"], r)
                /\ UNCHANGED files
           ELSE IF o = "refusal"
           THEN /\ Complete(t, [kind |-> "None", msg |-> "refusal"], r)
                /\ UNCHANGED files
           ELSE \/ /\ Complete(t, [kind |-> "raised", msg |-> "other"],
                               [r EXCEPT !.io = "open_failed"])
                   /\ UNCHANGED files
                \/ /\ files' = [files EXCEPT ![r.id] = "partial"]
                   /\ tasks' = [tasks EXCEPT ![t] = [r EXCEPT !.pc = "writing"]]
                   /\ UNCHANGED finished
    /\ UNCHANGED <<row, query, script, max_workers, csv_files, file_ix, input, run, environ, phase, pending,
                   PROCESSED_AGENTS, results, existing_files, prev_succeeded, waiter>>

\* json.dump(agent_data.dict(), f) and the close of the file, or an OSError.
extract_write(t) ==
    /\ phase = "running"
    /\ script = "structure"
    /\ t \in Tix
    /\ tasks[t].pc = "writing"
    /\ \/ /\ files' = [files EXCEPT ![tasks[t].id] = "valid"]
          /\ Complete(t, [kind |-> "value", msg |-> "agent_data"],
                      [tasks[t] EXCEPT !.io = "ok"])
       \/ /\ Complete(t, [kind |-> "raised", msg |-> "other"],
                      [tasks[t] EXCEPT !.io = "fail"])
          /\ UNCHANGED files
    /\ UNCHANGED <<row, query, script, max_workers, csv_files, file_ix, input, run, environ, phase, pending,
                   PROCESSED_AGENTS, results, existing_files, prev_succeeded, waiter>>

\* ------------------------------------------------------------ collection
\* What the loop over as_completed(futures) does with one future:
\*   parallel_search   results.append(future.result()), no try around it
\*   scrape main       try: future.result() except: log; pbar.update(1)
\*   process_csv_file  append the value unless it is None; except: print
\* A result string of search_wrapper names the agent_uuid; an AgentData has
\* no field for the id.
NoId == 0

collected(r) ==
    IF script = "search" THEN <<[id |-> r.id, kind |-> r.res.kind, msg |-> r.res.msg]>>
    ELSE IF script = "structure" /\ r.res.kind = "value"
    THEN <<[id |-> NoId, kind |-> r.res.kind, msg |-> r.res.msg]>>
    ELSE <<>>

\* The future once as_completed has yielded it: the locals of the call are
\* gone; its result stays, and the probes last and io.
consumed(r) ==
    [NewTask(r.id) EXCEPT !.pc = "collected", !.res = r.res, !.last = r.last, !.io = r.io]

\* What the main thread reports for a future that ended in failure:
\*   agent_email_search  "Error processing agent_uuid {agent_uuid}: {e}",
\*                       printed with the other results when the batch is over
\*   scrape main         logger.error(f"An error occurred: {e}")
\*   process_csv_file    print(f"Error processing agent: {str(e)}")
\* Only the first names the item.
failure_report(r) ==
    [id |-> IF script = "search" THEN r.id ELSE NoId, reason |-> r.res.msg]

\* The failure entries the invocation has put out so far.
report ==
    {failure_report(tasks[t]) :
        t \in {u \in Tix : /\ tasks[u].pc = "collected"
                            /\ TaskEndedInFailure(tasks[u])
                            /\ script = "search" => phase = "done"}}

\* Faulty variant: no script wraps future.result() in a try.
result_unguarded_everywhere(r) == r.res.kind = "raised"

\* future.result() re-raises the exception of the task in the main thread;
\* only parallel_search calls it outside a try.
result_unguarded(r) == script = "search" /\ r.res.kind = "raised"

\* The loop over as_completed(futures) ends when each future was yielded.
as_completed_exhausted(t) == \A u \in Tix \ {t} : tasks[u].pc = "collected"

\* The orders in which a set of futures can be iterated.
Perms(q) == {p \in [DOMAIN q -> SeqToSet(q)] : SeqToSet(p) = SeqToSet(q)}

\* The order in which as_completed yields the futures q that are done and
\* not yet yielded, q in order of completion. as_completed(fs) makes a set of
\* fs; the futures found done when it starts are yielded first, in the
\* iteration order of that set, which is not specified; those that complete
\* later are appended to waiter.finished_futures and yielded in that order.
yield_order(q, w) == IF w = "none" THEN Perms(q) ELSE {q}

\* The first next() on as_completed(futures): the main thread has submitted
\* every item and enters the loop.
as_completed ==
    /\ phase = "running"
    /\ waiter = "none"
    /\ waiter' = "installed"
    /\ finished' \in yield_order(finished, waiter)
    /\ UNCHANGED <<row, query, script, max_workers, csv_files, file_ix, input, files, run,
                   environ, phase, pending, PROCESSED_AGENTS, tasks, results,
                   existing_files, prev_succeeded>>

Collect ==
    /\ phase = "running"
    /\ waiter = "installed"
    /\ finished # <<>>
    /\ LET t == Head(finished)
           r == tasks[t]
           last_one == as_completed_exhausted(t) IN
       /\ finished' = Tail(finished)
       /\ tasks' = [tasks EXCEPT ![t] = consumed(r)]
       /\ IF result_unguarded(r)
          THEN /\ phase' = "aborted"
               /\ UNCHANGED results
          ELSE /\ results' = results \o collected(r)
               /\ phase' = IF ~last_one THEN "running"
                           ELSE IF file_ix < Len(csv_files) THEN "between"
                           ELSE "done"
    /\ UNCHANGED <<row, query, script, max_workers, csv_files, file_ix, input, files, run, environ, pending,
                   PROCESSED_AGENTS, existing_files, prev_succeeded, waiter>>

\* Faulty variant: main does not wait for parallel_search.
parallel_search_returned_early ==
    phase \in {"running", "between"} /\ file_ix < Len(csv_files)

\* results = parallel_search(...) has returned, or the file had nothing
\* pending (continue), and csv_files holds another file.
parallel_search_returned == phase = "between" /\ file_ix < Len(csv_files)

\* agent_email_search: main goes on to the next file of csv_files once
\* parallel_search has returned for the one before (or that one had nothing
\* pending): it reads the file, lists the output directory again in
\* generate_search_tuples and submits the tuples to a new pool.
NextFile ==
    /\ parallel_search_returned
    /\ LET df == csv_files[file_ix + 1]
           p == work_discovery(df, files) IN
       /\ file_ix' = file_ix + 1
       /\ input' = df
       /\ existing_files' = listdir(files)
       /\ pending' = p
       /\ tasks' = [t \in 1..Len(p) |-> NewTask(p[t])]
       /\ phase' = IF p # <<>> THEN "running"
                   ELSE IF file_ix + 1 < Len(csv_files) THEN "between"
                   ELSE "done"
    /\ finished' = <<>>
    /\ results' = <<>>
    /\ waiter' = "none"
    /\ UNCHANGED <<row, query, script, max_workers, csv_files, files, run, environ,
                   PROCESSED_AGENTS, prev_succeeded>>

\* The process is killed (power loss, kill -9, operator abort) while the
\* batch runs: every thread stops where it is; only the files stay.
Crash ==
    /\ phase = "running"
    /\ phase' = "crashed"
    /\ tasks' = <<>>
    /\ finished' = <<>>
    /\ results' = <<>>
    /\ pending' = <<>>
    /\ waiter' = "none"
    /\ UNCHANGED <<row, query, script, max_workers, csv_files, file_ix, input, files, run, environ,
                   PROCESSED_AGENTS, existing_files, prev_succeeded>>

\* The exit status of the process once main has returned (0) or an
\* exception has left it (the interpreter prints the traceback and exits 1).
NoExit == -1

exit_status ==
    CASE phase = "done" -> 0
      [] phase \in {"fatal", "aborted"} -> 1
      [] OTHER -> NoExit

Next ==
    \/ Main
    \/ \E t \in Tix : Start(t)
    \/ \E t \in Tix : search_attempt(t)
    \/ \E t \in Tix : search_write(t)
    \/ \E t \in Tix : scrape_page(t)
    \/ \E t \in Tix : scrape_write(t)
    \/ \E t \in Tix : process_agent(t)
    \/ \E t \in Tix : extract_search_results(t)
    \/ \E t \in Tix : extract_write(t)
    \/ as_completed
    \/ Collect
    \/ NextFile
    \/ Crash

Spec == Init /\ [][Next]_vars

\* The steps of the pool and of the collection loop. The executor runs every
\* submitted work item and the main thread blocks in as_completed until a
\* future is done, so a step of them that stays possible is taken; nothing
\* obliges the operator to start the script again, nor the process to be killed.
PoolStep ==
    \/ \E t \in Tix : Start(t)
    \/ \E t \in Tix : search_attempt(t)
    \/ \E t \in Tix : search_write(t)
    \/ \E t \in Tix : scrape_page(t)
    \/ \E t \in Tix : scrape_write(t)
    \/ \E t \in Tix : process_agent(t)
    \/ \E t \in Tix : extract_search_results(t)
    \/ \E t \in Tix : extract_write(t)
    \/ as_completed
    \/ Collect
    \/ NextFile

FairSpec == Spec /\ WF_vars(PoolStep)

\* ------------------------------------------------- the queries, on their own
\* The query of one row, for every row of text cells of up to MaxLen
\* characters.
PayloadInit ==
    /\ script \in {"search", "structure"}
    /\ row \in Rows
    /\ query = unbuilt
    /\ max_workers = 1
    /\ csv_files = << <<1>> >>
    /\ file_ix = 1
    /\ input = <<1>>
    /\ files = [i \in FileIds |-> "absent"]
    /\ run = 0
    /\ environ = [api_key |-> "set", input_exists |-> TRUE]
    /\ phase = "init"
    /\ pending = <<>>
    /\ PROCESSED_AGENTS = {}
    /\ tasks = <<>>
    /\ finished = <<>>
    /\ results = <<>>
    /\ existing_files = {}
    /\ prev_succeeded = FALSE
    /\ waiter = "none"

\* query = generate_search_query(row), in generate_search_tuples.
build_search_query ==
    /\ script = "search"
    /\ query = unbuilt
    /\ query' = generate_search_query(row)
    /\ UNCHANGED <<row, script, max_workers, csv_files, file_ix, input, files, run,
                   environ, phase, pending, PROCESSED_AGENTS, tasks, finished,
                   results, existing_files, prev_succeeded, waiter>>

\* The query process_agent builds for the model.
build_structure_query ==
    /\ script = "structure"
    /\ query = unbuilt
    /\ query' = search_query(row)
    /\ UNCHANGED <<row, script, max_workers, csv_files, file_ix, input, files, run,
                   environ, phase, pending, PROCESSED_AGENTS, tasks, finished,
                   results, existing_files, prev_succeeded, waiter>>

PayloadNext == build_search_query \/ build_structure_query

PayloadSpec == PayloadInit /\ [][PayloadNext]_vars

\* ================================================================ claims

Distinct(q) == \A j, k \in DOMAIN q : j # k => q[j] # q[k]

\* Every row carries an id and no two rows the same.
ValidIds(q) == Distinct(q) /\ \A k \in DOMAIN q : q[k] \in Ids

\* C1. Resumability: for an input of N rows with distinct ids of which the
\* ids in S had an output file when the invocation started,
\* agent_email_search and the zipcode scraper submit one task for each of
\* the N - |S| ids outside S, in input order, and none for an id in S.
Resumability ==
    (script \in {"search", "scrape"} /\ phase \in {"running", "done"} /\ ValidIds(input))
    => LET S == existing_files \cap SeqToSet(input) IN
       /\ SeqToSet(pending) = SeqToSet(input) \ S
       /\ Len(pending) = Len(input) - Cardinality(S)
       /\ Len(tasks) = Len(pending)
       /\ \A t \in Tix : tasks[t].id = pending[t]
       /\ \A t \in Tix : tasks[t].id \notin S

\* A later invocation that finds a record for one id and none for another.
ResumabilityWitness ==
    /\ script \in {"search", "scrape"}
    /\ ValidIds(input)
    /\ run = 2
    /\ phase = "running"
    /\ \E i \in existing_files \cap SeqToSet(input) : files[i] = "valid"
    /\ pending # <<>>
    /\ Len(pending) < Len(input)

\* C3. Bounded concurrency: at no time are more task calls started and not
\* finished than the configured limit (--max_workers; the fixed 10 of
\* structure_search_results).
BoundedConcurrency ==
    Cardinality(Running) <= (IF script = "structure" THEN structure_max_workers
                             ELSE max_workers)

\* The pool is full and a submitted task waits for a worker.
BoundedConcurrencyWitness ==
    /\ script \in {"search", "scrape"}
    /\ Cardinality(Running) = max_workers
    /\ Queued # {}

\* The environment of the task did its part: every request was answered
\* with status 200 and well-formed content, and the file was written.
OwnOperationsSucceeded(r) ==
    /\ r.io = "ok"
    /\ r.last \in {"ok200", "empty", "parsed"}

\* The collection loop has the success of task t: its result string is in
\* results (search), its AgentData was appended (structure), its future was
\* consumed (scrape, which keeps no collection).
SuccessCollected(t) ==
    CASE script = "search" ->
           \E k \in DOMAIN results :
               results[k].id = tasks[t].id /\ results[k].kind = "Completed"
      [] script = "structure" ->
           /\ tasks[t].pc = "collected"
           /\ Cardinality({k \in DOMAIN results : results[k].kind = "value"})
                = Cardinality({u \in Tix : /\ tasks[u].pc = "collected"
                                           /\ tasks[u].res.kind = "value"})
      [] OTHER -> tasks[t].pc = "collected"

\* Task t is the only task of its item in the batch.
OnlyTaskOfItem(t) == \A u \in Tix \ {t} : tasks[u].id # tasks[t].id

\* C4. Partial-failure isolation: however the invocation ends, every task
\* whose own requests and write succeeded has ended in success, its output
\* record is in place and its success was collected, whatever happened to
\* the tasks of the other items of the batch.
PartialFailureIsolation ==
    phase \in {"done", "aborted"}
    => \A t \in Tix :
         (OwnOperationsSucceeded(tasks[t]) /\ OnlyTaskOfItem(t))
         => /\ TaskEndedInSuccess(tasks[t])
            /\ files[tasks[t].id] = "valid"
            /\ SuccessCollected(t)

\* A batch that ended with one task failed, collected before a sibling that
\* succeeded.
PartialFailureIsolationWitness ==
    /\ script \in {"search", "structure"}
    /\ phase = "done"
    /\ \E t, u \in Tix :
         /\ tasks[t].id # tasks[u].id
         /\ TaskEndedInFailure(tasks[t])
         /\ OwnOperationsSucceeded(tasks[u])
         /\ SuccessCollected(u)

\* C2. Idempotence: after an invocation in which every task ended in
\* success, the next invocation over the same input (rows of distinct ids)
\* and output directory submits no task (search, scrape), sends no request
\* and writes no file.
Idempotence ==
    (prev_succeeded /\ ValidIds(input))
    => /\ script \in {"search", "scrape"} => pending = <<>>
       /\ \A t \in Tix : /\ tasks[t].requests = 0
                         /\ tasks[t].pc # "writing"
                         /\ tasks[t].io = "none"

\* C5. Exactly one result per submitted item: when the batch over rows of
\* distinct ids has ended, the collection the scheduler returns
\* (parallel_search, process_csv_file) holds one outcome, success or failure,
\* for each submitted task.
ExactlyOneResult ==
    (script \in {"search", "structure"} /\ phase = "done" /\ ValidIds(input))
    => /\ Len(results) = Len(tasks)
       /\ script = "search"
          => \A t \in Tix :
               Cardinality({k \in DOMAIN results : results[k].id = tasks[t].id}) = 1

\* --------------------------------------------------- the calls of search()
\* What the requests of the call met, in order: only an exception caught for
\* retry is followed by another request, so every request but the last met one.
Trace(r) == [k \in 1..r.requests |-> IF k < r.requests THEN "retryable" ELSE r.last]

IsPrefix(p, q) == Len(p) <= Len(q) /\ \A k \in DOMAIN p : p[k] = q[k]

\* search() has returned a value or raised.
SearchEnded(r) == r.pc \in {"writing", "done"}

\* search() has returned the body of its last response.
SearchReturned(r) == SearchEnded(r) /\ r.last \in Responses

\* The failure classes of the specification: a network timeout, a reset
\* connection and a 5xx status are Transient; 429 is RateLimited; another 4xx
\* and a malformed response are Permanent.
Transient == {"retryable", "s5xx"}

Permanent == {"s4xx", "malformed"}

\* The backends that fail with a Transient failure twice and then succeed.
TransientTwiceThenOk ==
    {q \in [1..max_retries -> SearchOutcomes] :
        /\ \A k \in 1..(max_retries - 1) : q[k] \in Transient
        /\ q[max_retries] = "ok200"}

\* The backends that fail with a Transient failure on every attempt.
TransientAlways == [1..max_retries -> Transient]

\* C6. Retry success: a call of search() against a backend that fails with a
\* Transient failure on the first two attempts and succeeds on the third ends
\* after exactly three requests, returning the body of the third response.
RetrySuccess ==
    \A t \in Tix :
      (script = "search" /\ SearchEnded(tasks[t])
         /\ \E q \in TransientTwiceThenOk : IsPrefix(Trace(tasks[t]), q))
      => /\ tasks[t].requests = max_retries
         /\ SearchReturned(tasks[t])
         /\ tasks[t].last = "ok200"

\* C7. Retries exhausted: a task whose backend fails with a Transient failure
\* on every attempt ends after exactly max_retries requests in a failure
\* tagged "Failed after <max_retries> attempts".
RetriesExhausted ==
    \A t \in Tix :
      (script = "search" /\ SearchEnded(tasks[t])
         /\ \E q \in TransientAlways : IsPrefix(Trace(tasks[t]), q))
      => /\ tasks[t].pc = "done"
         /\ tasks[t].requests = max_retries
         /\ tasks[t].res = [kind |-> "Error", msg |-> "Failed after"]

\* C8. Permanent failure: a task whose first attempt meets a Permanent
\* failure ends in failure after that single request, without a sleep.
PermanentFailure ==
    \A t \in Tix :
      (script = "search" /\ tasks[t].pc = "done"
         /\ tasks[t].requests >= 1 /\ Trace(tasks[t])[1] \in Permanent)
      => /\ tasks[t].requests = 1
         /\ tasks[t].sleeps = 0
         /\ TaskEndedInFailure(tasks[t])

\* C9. Atomic writes: a scan of the output directory at any time finds, for
\* each id, a complete record or nothing; and after a crash an id whose
\* record is not complete is not counted as done: the next invocation
\* would work on it.
AtomicWrites ==
    /\ \A i \in DOMAIN files : files[i] \in {"absent", "valid", "error"}
    /\ phase = "crashed"
       => \A i \in DOMAIN files :
            files[i] \notin {"valid", "error"} => i \notin listdir(files)

\* C10. Failed items are exactly the ones retried: when an invocation over
\* rows of distinct ids has ended, a task's id has a record if and only if the task ended in success
\* with no error status on any of its requests; the id of a task that failed
\* has no record and is not counted as done by the next invocation. (A task
\* of structure_search_results that only found its id done already is left
\* out.)
FailedAreRetried ==
    (phase = "done" /\ ValidIds(input))
    => \A t \in Tix :
         LET r == tasks[t]
             ok == TaskEndedInSuccess(r) /\ ~SawErrorStatus(r) IN
         r.res.msg # "already processed"
         => /\ exists(files, r.id) <=> ok
            /\ ~ok => r.id \notin listdir(files)

\* C11. Only validated successes are committed: a response that is
\* rate-limited, a 4xx other than 429, or malformed ends the task in failure
\* and is never written, so no output record holds an error payload.
OnlyValidatedCommitted ==
    /\ \A i \in DOMAIN files : files[i] # "error"
    /\ \A t \in Tix :
         (script = "search" /\ tasks[t].pc = "done"
            /\ tasks[t].last \in {"s429", "s4xx", "malformed"})
         => TaskEndedInFailure(tasks[t])

\* What search_wrapper does get right of it: a body that is not JSON makes
\* json.loads raise before open(), so nothing is written for it.
MalformedNeverWritten ==
    \A t \in Tix :
      (script = "search" /\ tasks[t].last = "malformed")
      => /\ tasks[t].pc # "writing"
         /\ tasks[t].io = "none"

\* The invocation found no usable credential or no input location.
ConfigurationError == environ.api_key # "set" \/ ~environ.input_exists

\* A step into an invocation that found a configuration error writes nothing.
ConfigErrorWritesNothing ==
    (script \in {"search", "scrape"} /\ ConfigurationError') => (files' = files)

\* C12. Configuration error halts before work: when the credential is unset
\* or empty or the input location is missing, agent_email_search and the
\* scraper end with a fatal error with no task submitted, and the step that
\* starts such an invocation leaves every output record as it was.
ConfigErrorHalts ==
    /\ [](script \in {"search", "scrape"} /\ run >= 1 /\ ConfigurationError
            => /\ phase = "fatal"
               /\ tasks = <<>> /\ pending = <<>>
               /\ finished = <<>> /\ results = <<>>)
    /\ [][ConfigErrorWritesNothing]_vars

\* A second invocation that halts on the missing input while an id of the
\* input still has no record.
ConfigErrorHaltsWitness ==
    /\ script \in {"search", "scrape"}
    /\ run = 2
    /\ phase = "fatal"
    /\ environ = [api_key |-> "set", input_exists |-> FALSE]
    /\ ValidIds(input)
    /\ \E k \in DOMAIN input : ~exists(files, input[k])

\* The write of the task's record failed: open() raised, or json.dump /
\* to_csv raised after the file was opened.
WriteFailed(r) == r.io \in {"open_failed", "fail"}

\* C13. IOFailure leaves the item unprocessed: a task (of an input of
\* distinct ids) whose write failed with an I/O error at any step has ended
\* in failure and its id has no record afterwards, so the next invocation finds nothing for it and dispatches it.
IOFailureUnprocessed ==
    \A t \in Tix :
      (tasks[t].pc \in {"done", "collected"} /\ WriteFailed(tasks[t])
         /\ ValidIds(input))
      => /\ TaskEndedInFailure(tasks[t])
         /\ ~exists(files, tasks[t].id)

\* The part of it the code does keep: a failed write ends the task in
\* failure, and when it is open() that fails the task has created no file.
OpenFailureUnprocessed ==
    \A t \in Tix :
      (tasks[t].pc \in {"done", "collected"} /\ WriteFailed(tasks[t]))
      => /\ TaskEndedInFailure(tasks[t])
         /\ (tasks[t].io = "open_failed" /\ Distinct(input))
            => ~exists(files, tasks[t].id)

\* C14. Drainable under total failure: a batch that is not killed ends,
\* whatever its tasks meet and in particular when every one of them fails;
\* when it has ended no worker holds a task, no task waits and the
\* collection loop has taken the outcome of every submitted task.
Drainable ==
    /\ [](phase = "done"
            => /\ Running = {} /\ Queued = {} /\ finished = <<>>
               /\ \A t \in Tix : tasks[t].pc = "collected")
    /\ (phase = "running") ~> (phase \in {"done", "crashed"})

\* A batch of more tasks than workers has ended with every task failed.
DrainableWitness ==
    /\ script \in {"search", "scrape"}
    /\ phase = "done"
    /\ Len(tasks) > max_workers
    /\ \A t \in Tix : TaskEndedInFailure(tasks[t])

FailuresReportedWithId ==
    phase = "done"
    => \A t \in Tix :
         TaskEndedInFailure(tasks[t])
         => \E e \in report : e.id = tasks[t].id /\ e.reason = tasks[t].res.msg

\* agent_email_search alone does it: its error string carries the agent_uuid.
SearchFailuresReportedWithId ==
    (script = "search" /\ phase = "done")
    => \A t \in Tix :
         TaskEndedInFailure(tasks[t])
         => \E e \in report : e.id = tasks[t].id /\ e.reason = tasks[t].res.msg

\* Every row of the input that has an id, and no record when the invocation
\* started, has a task.
RowsWithIdDispatched ==
    \A k \in DOMAIN input :
      (input[k] # Blank /\ (script = "structure" \/ input[k] \notin existing_files))
      => \E t \in Tix : tasks[t].id = input[k]

\* C17. Missing identifier skips only the record: when the input was read,
\* for a row without id no task is submitted and no file is written, and
\* every row of the same input that has an id is still processed.
MissingIdSkipsRecord ==
    (phase \in {"running", "done"} /\ environ.input_exists)
    => /\ \A t \in Tix : tasks[t].id # nan
       /\ files[nan] = "absent"
       /\ RowsWithIdDispatched

\* The half the code keeps: a row without id never keeps a row with an id
\* from being processed.
MissingIdSparesOtherRows ==
    (phase \in {"running", "done"} /\ environ.input_exists) => RowsWithIdDispatched

\* Task t opens its output file in this step.
Opens(t) ==
    /\ t \in DOMAIN tasks'
    /\ tasks[t].pc \in {"attempt", "calling"}
    /\ tasks'[t].pc = "writing"

\* A step that respects the records in place: a file is opened for writing
\* only when there is none for the id, a complete record never changes, and
\* no file goes away.
WriteOnceStep ==
    /\ \A t \in Tix : Opens(t) => ~exists(files, tasks[t].id)
    /\ \A i \in DOMAIN files :
         /\ files[i] \in {"valid", "error"} => files'[i] = files[i]
         /\ exists(files, i) => exists(files', i)

\* C18. Write-once output: once a file for an id exists in the output
\* directory, no later step of the same invocation and none of a later
\* invocation opens it for writing or changes its complete content.
WriteOnce == [][WriteOnceStep]_vars

\* On inputs whose rows carry distinct ids the output is write-once.
WriteOnceOnValidIds == [][ValidIds(input) => WriteOnceStep]_vars

\* Task t was submitted and its future is not done.
InFlight(t) == tasks[t].pc \in {"queued", "attempt", "calling", "writing"}

\* C19. One id, one writer: in an invocation no two tasks of the same id are
\* submitted or in flight together, and so no two of them are writing the
\* same output file; for every input the script reads, also one in which an
\* id occurs on more than one row.
OneIdOneWriter ==
    \A t, u \in Tix :
      (t # u /\ InFlight(t) /\ InFlight(u)) => tasks[t].id # tasks[u].id

\* It holds on the inputs whose rows carry distinct ids.
OneIdOneWriterOnValidIds ==
    ValidIds(input)
    => \A t, u \in Tix :
         (t # u /\ InFlight(t) /\ InFlight(u)) => tasks[t].id # tasks[u].id

\* Where it leads on the other inputs: two workers writing one file at once.
NoTwoWritersOfOneFile ==
    \A t, u \in Tix :
      (t # u /\ tasks[t].pc = "writing" /\ tasks[u].pc = "writing")
      => tasks[t].id # tasks[u].id

\* C20. Rate-limited responses are retried: a call of search() never ends on
\* a 429 response while attempts remain, and a 429 body is never what the
\* call returns: a call whose last response was a 429 has made max_retries
\* requests and ended in failure.
RateLimitedRetried ==
    \A t \in Tix :
      (script = "search" /\ SearchEnded(tasks[t]) /\ tasks[t].last = "s429")
      => /\ tasks[t].requests = max_retries
         /\ tasks[t].pc = "done"
         /\ TaskEndedInFailure(tasks[t])

\* What search() does with a response of any status: it returns after that
\* request; the only sleeps are those after the caught exceptions before it.
AnyResponseEndsTheCall ==
    \A t \in Tix :
      (script = "search" /\ SearchEnded(tasks[t]) /\ tasks[t].last \in Responses)
      => tasks[t].sleeps = tasks[t].requests - 1

\* 2^n
RECURSIVE Pow2(_)
Pow2(n) == IF n = 0 THEN 1 ELSE 2 * Pow2(n - 1)

\* C21. Exponential backoff: the sleep that follows failed attempt number i
\* (counted from 0) lasts baseDelay * 2^i, baseDelay being the first delay,
\* and no sleep follows the last allowed attempt.
ExponentialBackoff ==
    \A t \in Tix :
      script = "search"
      => /\ \A k \in DOMAIN tasks[t].slept :
              tasks[t].slept[k] = tasks[t].slept[1] * Pow2(k - 1)
         /\ Len(tasks[t].slept) <= max_retries - 1

\* What the loop does: the same delay before every retry, none after the
\* last allowed attempt.
ConstantBackoff ==
    \A t \in Tix :
      script = "search"
      => /\ \A k \in DOMAIN tasks[t].slept : tasks[t].slept[k] = sleep_seconds
         /\ Len(tasks[t].slept) = tasks[t].sleeps
         /\ Len(tasks[t].slept) <= max_retries - 1

\* C28. Connections of search(): at the start of every attempt and once the
\* call has returned or raised the worker holds no open connection, and it
\* never held more than one at a time.
ConnectionsClosed ==
    \A t \in Tix :
      script = "search"
      => /\ tasks[t].conns = 0
         /\ tasks[t].peak_conns <= 1

\* A call that opened a connection on each of its max_retries attempts has
\* raised and holds none.
ConnectionsClosedWitness ==
    \E t \in Tix :
      /\ script = "search"
      /\ tasks[t].pc = "done"
      /\ tasks[t].requests = max_retries
      /\ tasks[t].res.msg = "Failed after"
      /\ tasks[t].peak_conns = 1
      /\ tasks[t].conns = 0

\* The page loop of scrape_zipcode has ended on a page without agents.
LoopBroken(r) == r.pc \in {"writing", "done"} /\ r.last \in {"empty", "non200"}

\* C26. The pages of scrape_zipcode: the pages requested are 1, 2, 3, ... in
\* this order, each once; the loop goes on only after a page that gave
\* agents and stops at the first page of another status or without agent
\* cards, after as many requests as pages with agents plus one; and a batch
\* of the scraper ends once the site has returned such a page to each task.
PagesInOrder ==
    /\ [](\A t \in Tix :
            (script = "scrape" /\ tasks[t].pc # "collected")
            => /\ tasks[t].urls = [k \in 1..tasks[t].requests |-> k]
               /\ tasks[t].pc = "attempt" => tasks[t].last \in {"none", "agents"}
               /\ tasks[t].pc = "attempt" => tasks[t].requests = tasks[t].all_agents
               /\ LoopBroken(tasks[t])
                  => tasks[t].requests = tasks[t].all_agents + 1)
    /\ (script = "scrape" /\ phase = "running") ~> (phase \in {"done", "crashed"})

\* A zipcode of MaxPages pages of agents: the loop has ended on the empty
\* page after them.
PagesInOrderWitness ==
    \E t \in Tix :
      /\ script = "scrape"
      /\ LoopBroken(tasks[t])
      /\ tasks[t].last = "empty"
      /\ tasks[t].all_agents = MaxPages
      /\ tasks[t].urls = [k \in 1..(MaxPages + 1) |-> k]

\* The call of scrape_zipcode has tried to write its file.
WriteAttempted(r) == r.pc = "writing" \/ r.io # "none"

\* What a call of scrape_zipcode leaves, for the zipcodes of a file of
\* distinct zipcodes.
FileIffAgents ==
    \A t \in Tix :
      (script = "scrape" /\ tasks[t].pc # "collected")
      => /\ WriteAttempted(tasks[t]) => tasks[t].all_agents >= 1
         /\ (LoopBroken(tasks[t]) /\ tasks[t].all_agents >= 1)
            => WriteAttempted(tasks[t])
         /\ (LoopBroken(tasks[t]) /\ tasks[t].all_agents = 0)
            => /\ tasks[t].res = [kind |-> "returned", msg |-> "No agents found"]
               /\ ValidIds(input) => files[tasks[t].id] = "absent"
         /\ (tasks[t].res.msg = "Scraped" /\ ValidIds(input))
            => files[tasks[t].id] = "valid"

\* The next invocation that reads the zipcodes submits again every zipcode
\* whose call found no agent.
ZeroAgentsRedispatched ==
    (script = "scrape" /\ run' = run + 1 /\ phase' # "fatal" /\ ValidIds(input))
    => \A t \in Tix :
         tasks[t].res.msg = "No agents found"
         => \E k \in DOMAIN pending' : pending'[k] = tasks[t].id

GuardedWriteStep ==
    script = "structure"
    => /\ \A t \in Tix :
            t \in DOMAIN tasks'
            => /\ (tasks[t].pc = "attempt" /\ tasks'[t].pc = "calling")
                  => /\ tasks[t].id \notin PROCESSED_AGENTS
                     /\ tasks'[t].last = "found"
                     /\ files[tasks[t].id] = "absent"
               /\ (tasks[t].pc # "writing" /\ tasks'[t].pc = "writing")
                  => /\ tasks[t].pc = "calling"
                     /\ tasks'[t].last = "parsed"
       /\ \A i \in FileIds :
            files'[i] # files[i]
            => \E t \in Tix : /\ tasks[t].id = i
                              /\ tasks[t].pc \in {"calling", "writing"}
                              /\ t \in DOMAIN tasks'
                              /\ tasks'[t].last = "parsed"

\* A task whose test failed returned None, called the model at most for the
\* refusal and never opened the output file.
SkippedWritesNothing ==
    \A t \in Tix :
      (script = "structure" /\ tasks[t].pc = "done")
      => /\ tasks[t].last \in {"none", "notfound", "refusal"}
            => /\ tasks[t].res.kind = "None"
               /\ tasks[t].io = "none"
         /\ tasks[t].last \in {"none", "notfound"} => tasks[t].requests = 0
         /\ tasks[t].res.kind = "None" => tasks[t].io = "none"

\* An id whose task returned None and that has no output file is not in the
\* snapshot of the next invocation, which submits its row again.
SkippedStillPending ==
    (script = "structure" /\ run' = run + 1 /\ environ'.input_exists)
    => \A t \in Tix :
         (tasks[t].res.kind = "None" /\ files[tasks[t].id] = "absent")
         => /\ tasks[t].id \notin PROCESSED_AGENTS'
            /\ \E k \in DOMAIN pending' : pending'[k] = tasks[t].id

NextFileStep ==
    (script = "search" /\ run' = run /\ file_ix' # file_ix)
    => /\ file_ix' = file_ix + 1
       /\ input' = csv_files[file_ix + 1]
       /\ \A t \in Tix : tasks[t].pc = "collected"
       /\ Running = {} /\ Queued = {} /\ finished = <<>>
       /\ existing_files' = {i \in FileIds : files[i] # "absent"}
       /\ \A k \in DOMAIN pending' : files[pending'[k]] = "absent"

\* The tasks at work are those of the file being handled, and none of them
\* is for an id that had a file at the pending check of that file.
OneFileAtATime ==
    (script = "search" /\ phase \in {"running", "between", "done"})
    => /\ input = csv_files[file_ix]
       /\ \A t \in Tix : /\ \E k \in DOMAIN input : astype_str(input[k]) = tasks[t].id
                         /\ tasks[t].id \notin existing_files

\* C24. agent_email_search handles the CSV files one after another: the
\* pending check of a file runs only when every task of the file before has
\* finished and was collected, so an id of two files whose record was
\* written while the earlier file was handled is not submitted again for
\* the later file of the same invocation.
FilesSequential == [][NextFileStep]_vars /\ [](OneFileAtATime)

\* The first invocation has reached the second file, which repeats an id of
\* the first: the record written for the first file is in place and the id
\* is not submitted.
FilesSequentialWitness ==
    /\ script = "search"
    /\ run = 1
    /\ file_ix = 2
    /\ \E j \in DOMAIN csv_files[1], k \in DOMAIN csv_files[2] :
         /\ csv_files[1][j] = csv_files[2][k]
         /\ csv_files[1][j] \in Ids
         /\ files[csv_files[1][j]] = "valid"
         /\ \A n \in DOMAIN pending : pending[n] # csv_files[1][j]

\* The main thread takes the outcome of task t in this step.
Collected(t) ==
    /\ tasks[t].pc = "done"
    /\ t \in DOMAIN tasks'
    /\ tasks'[t].pc = "collected"

\* The future taken in this step completed before every other future that
\* is done and not yet taken.
TakesEarliestDone ==
    script \in {"search", "structure"}
    => \A t, u \in Tix :
         (Collected(t) /\ tasks[u].pc = "done") => tasks[t].rank <= tasks[u].rank

\* Once the loop has started the queue of done futures changes by a future
\* that completes, put at its end, or by the head being taken.
FifoStep ==
    (waiter = "installed" /\ waiter' = "installed" /\ finished' # finished)
    => \/ finished # <<>> /\ finished' = Tail(finished)
       \/ \E t \in Tix : finished' = Append(finished, t) /\ tasks[t].pc # "done"

\* C23. Results in completion order: in agent_email_search and
\* structure_search_results the future whose outcome the collection loop
\* takes is, of the futures done and not yet taken, the one that completed
\* first, so the result sequence lists the items in the order their tasks
\* finished.
CompletionOrder == [][TakesEarliestDone]_vars

\* What as_completed gives for the order: once the loop has started, the
\* futures are queued as they complete and taken from the head.
CompletionOrderOnceStarted == [][FifoStep]_vars

\* And a slow task never delays a finished one: every future that is done
\* and not yet taken is in the queue, whatever the tasks submitted before it
\* are doing, and the loop, once started, can take the head of the queue.
FinishedNeverDelayed ==
    phase = "running"
    => /\ SeqToSet(finished) = {t \in Tix : tasks[t].pc = "done"}
       /\ Len(finished) = Cardinality(SeqToSet(finished))

\* A cell that is absent (NaN) or empty (no character but spaces).
Blankish(v) == v = NaN \/ strip(v) = <<>>

\* The row with '' in every cell that is absent or empty.
WithoutBlanks(r) == [f \in Fields |-> IF Blankish(r[f]) THEN <<>> ELSE r[f]]

\* The query the script builds for a row.
payload(r) == IF script = "search" THEN generate_search_query(r) ELSE search_query(r)

\* C22. Every contributing field is optional: for every combination of
\* present, empty and absent Name, Company, City and County, building the
\* query does not fail, a cell that is empty or absent adds nothing to it
\* (the query is the one of the row without that cell), and when all four
\* are absent the query is the minimal one.
FieldsOptional ==
    query # unbuilt
    => /\ query # TypeError
       /\ query = payload(WithoutBlanks(row))
       /\ (\A f \in Fields : row[f] = NaN)
          => query = (IF script = "search" THEN <<"(email OR contact)">>
                      ELSE <<"North Dakota", " ", "real estate">>)

\* generate_search_query keeps it: each cell is tested with pd.notna and
\* stripped before it is used.
SearchFieldsOptional ==
    (script = "search" /\ query # unbuilt)
    => /\ query # TypeError
       /\ query = payload(WithoutBlanks(row))
       /\ (\A f \in Fields : row[f] = NaN) => query = <<"(email OR contact)">>

\* process_agent keeps it for Company, City and County when they are absent
\* or '' and the row has a Name.
StructureOtherFieldsOptional ==
    (/\ script = "structure"
     /\ query # unbuilt
     /\ row["Name"] # NaN
     /\ \A f \in Fields : Blankish(row[f]) => row[f] \in {NaN, <<>>})
    => /\ query # TypeError
       /\ query = payload(WithoutBlanks(row))

\* ----------------------------------------------------------------- lemmas
\* The while loop of search() on the failures it does catch: two caught
\* exceptions and then a 200 response make three requests and two sleeps, and
\* the body of the third response is returned.
RetrySuccessOnCaughtExceptions ==
    \A t \in Tix :
      (script = "search" /\ SearchEnded(tasks[t])
         /\ IsPrefix(Trace(tasks[t]), <<"retryable", "retryable", "ok200">>))
      => /\ tasks[t].requests = max_retries
         /\ tasks[t].sleeps = max_retries - 1
         /\ SearchReturned(tasks[t])
         /\ tasks[t].last = "ok200"

\* A caught exception on every attempt makes max_retries requests and ends in
\* the tagged failure.
RetriesExhaustedOnCaughtExceptions ==
    \A t \in Tix :
      (script = "search" /\ SearchEnded(tasks[t])
         /\ IsPrefix(Trace(tasks[t]), [k \in 1..max_retries |-> "retryable"]))
      => /\ tasks[t].pc = "done"
         /\ tasks[t].requests = max_retries
         /\ tasks[t].res = [kind |-> "Error", msg |-> "Failed after"]

\* A body that is not JSON, or an exception that is not caught for retry, on
\* the first attempt ends the task in failure after one request and no sleep.
NoRetryOnMalformedOrUncaught ==
    \A t \in Tix :
      (script = "search" /\ tasks[t].pc = "done"
         /\ tasks[t].requests >= 1 /\ Trace(tasks[t])[1] \in {"malformed", "oserror"})
      => /\ tasks[t].requests = 1
         /\ tasks[t].sleeps = 0
         /\ tasks[t].res = [kind |-> "Error", msg |-> "other"]

====
